---- MODULE Spec2Model ----
(***************************************************************************)
(* alabEBM: the Metropolis-Hastings ordering sampler                       *)
(* (alabEBM/algorithms/algorithm.py), the run_ebm entry point that calls   *)
(* it (alabEBM/run.py) and the EM updater of the weighted KDEs             *)
(* (alabEBM/utils/fast_kde.py).                                            *)
(*                                                                         *)
(* Spec    : run_ebm and metropolis_hastings as a state machine.           *)
(* SpecEM  : update_kde_for_biomarker_em applied repeatedly to one         *)
(*           biomarker's parameter set.                                    *)
(*                                                                         *)
(* alabebm.utils.data_processing is not part of the sources at hand: its   *)
(* functions (shuffle_order, get_theta_phi_estimates, the likelihood and   *)
(* the parametric update) are modelled as uninterpreted deterministic      *)
(* functions of their arguments.                                           *)
(***************************************************************************)
EXTENDS Integers, Sequences, FiniteSets, TLC

----------------------------------------------------------------------------
(* Bounds of the model *)

\* largest `iterations` a run is started with
MaxIterations == 3

\* largest `n_shuffle` a run is started with
MaxShuffle == 2

\* log likelihoods returned by the likelihood function are -MaxLogLik .. -1
MaxLogLik == 2

----------------------------------------------------------------------------
(* Inputs *)

\* data_we_have.biomarker.unique()
biomarkers == <<"AB", "TAU", "HIP">>

\* n_stages = len(biomarkers) + 1
n_stages == Len(biomarkers) + 1

\* diseased_stages = np.arange(start=1, stop=n_stages, step=1)
diseased_stages == 1 .. (n_stages - 1)

\* allowed_algorithms of run_ebm
allowed_algorithms == {"hard_kmeans", "mle", "conjugate_priors", "em", "kde"}

\* the algorithm names a caller passes: the allowed ones and the name
\* 'soft_kmeans' that tests/test.py passes
AlgorithmNames == allowed_algorithms \cup {"soft_kmeans"}

\* the two ways a run starts: through run_ebm, or by calling
\* metropolis_hastings itself
EntryPoints == {"run_ebm", "metropolis_hastings"}

\* the parameters of metropolis_hastings
sampler_parameters ==
    {"data_we_have", "iterations", "n_shuffle", "algorithm", "prior_n", "prior_v"}

\* the keyword arguments of run_ebm's call of metropolis_hastings
call_keywords == {"prior_n", "prior_v", "weight_change_threshold"}

\* the number of values metropolis_hastings returns
ReturnedValues == <<"all_accepted_orders", "log_likelihoods">>

\* the names run_ebm unpacks the result into
UnpackTargets ==
    <<"accepted_order_dicts", "log_likelihoods", "final_theta_phi_params",
      "final_stage_post">>

----------------------------------------------------------------------------
(* Values *)

\* -np.inf, below every log likelihood
NegInf == 0 - MaxLogLik - 1

\* the finite values of a total log likelihood
LogLikValues == (0 - MaxLogLik) .. (0 - 1)

\* the values np.random.rand() takes, in units of 1/10000 (a value in [0, 1))
RandValues == {0, 2500, 9999}

\* a local variable that no assignment has bound yet
Unbound == <<>>

Bound(v) == <<v>>

IsBound(x) == x # Unbound

ValueOf(x) == x[1]

\* a draw of S stages with replacement
OrderPermutations_with_replacement == [1 .. Len(biomarkers) -> diseased_stages]

\* np.random.permutation(np.arange(1, n_stages)): every arrangement of 1..S
OrderPermutations ==
    {p \in [1 .. Len(biomarkers) -> diseased_stages] :
        \A i, j \in 1 .. Len(biomarkers) : p[i] = p[j] => i = j}

\* dict(zip(biomarkers, order))
DictZip(keys, order) ==
    [b \in {keys[i] : i \in 1 .. Len(keys)} |->
        order[CHOOSE i \in 1 .. Len(keys) : keys[i] = b]]

\* tests/test.py 17: the algorithm names the test passes to run_ebm
TestAlgorithms == {"hard_kmeans", "soft_kmeans", "conjugate_priors"}

\* the proposal made on the current array itself, with no copy
CopyTarget_alias(cur) == cur

\* order.copy() is a new array object: of the two array cells, the one the
\* current order does not live in
CopyTarget(cur) == 1 - cur

\* arr[i], arr[j] = arr[j], arr[i]
Swap(arr, i, j) == [arr EXCEPT ![i] = arr[j], ![j] = arr[i]]

\* data_utils.shuffle_order(arr, n_shuffle): the arrays that n pairwise swaps
\* of two distinct positions can leave
RECURSIVE shuffle_order(_, _)
shuffle_order(arr, n) ==
    IF n = 0 THEN {arr}
    ELSE UNION {shuffle_order(Swap(arr, i, j), n - 1) :
                    <<i, j>> \in {<<a, b>> \in (1 .. Len(arr)) \X (1 .. Len(arr)) : a < b}}

\* data_utils.get_theta_phi_estimates(data_we_have): the default estimate,
\* which no ordering and no posterior went into
get_theta_phi_estimates == <<>>

\* the stage posteriors that compute_total_ln_likelihood_and_stage_likelihoods
\* returns: determined by the ordering (through participant_data) and the
\* parameters
stage_likelihoods(order_dict, theta_phi) ==
    [order |-> order_dict, theta_phi |-> theta_phi]

\* data_utils.update_theta_phi_estimates(biomarker_data, theta_phi_current,
\* stage_likelihoods_posteriors, ...): determined by the ordering (through
\* biomarker_data), the fallback parameters and the posteriors
update_theta_phi_estimates(order_dict, theta_phi_current, posteriors, algo) ==
    Append(theta_phi_current,
           [order |-> order_dict, posteriors |-> posteriors, algorithm |-> algo])

\* the arguments that decide a total log likelihood
LikelihoodArgs(order_dict, theta_phi) ==
    [order |-> order_dict, theta_phi |-> theta_phi]

\* the re-estimating branch taken for the baseline as well
ReestimatingAlgorithms_all == {"conjugate_priors", "mle", "hard_kmeans"}

\* algorithm.py 74: the algorithms whose parameters are re-estimated in every
\* iteration
ReestimatingAlgorithms == {"conjugate_priors", "mle"}

\* np.exp(delta) for delta <= 0, in units of 1/10000
Exp(delta) ==
    CASE delta = 0 -> 10000
      [] delta = 0 - 1 -> 3679
      [] delta = 0 - 2 -> 1353
      [] delta = 0 - 3 -> 498
      [] delta = 0 - 4 -> 183
      [] OTHER -> 67

\* np.exp(delta) taken whatever the sign of delta
prob_accept_exp_only(new_ll, cur_ll) ==
    IF cur_ll = NegInf THEN 10000
    ELSE IF new_ll - cur_ll > 0 THEN Exp(cur_ll - new_ll) ELSE Exp(new_ll - cur_ll)

\* delta = new_ln_likelihood - current_ln_likelihood
\* prob_accept = 1.0 if delta > 0 else np.exp(delta), in units of 1/10000
prob_accept(new_ll, cur_ll) ==
    IF cur_ll = NegInf THEN 10000
    ELSE IF new_ll - cur_ll > 0 THEN 10000 ELSE Exp(new_ll - cur_ll)

\* for iteration in range(iterations): whether the loop goes on after `done`
\* completed iterations
LoopGoesOn_inclusive(done, n) == done <= n

LoopGoesOn(done, n) == done < n

\* whether binding the call's arguments to the sampler's parameters succeeds
CallBinds == call_keywords \subseteq sampler_parameters

\* whether the returned tuple unpacks into the call's targets
UnpackFits == Len(ReturnedValues) = Len(UnpackTargets)


----------------------------------------------------------------------------
(* The weighted KDEs and their EM updater (utils/fast_kde.py) *)

\* most calls of the EM updater in a run of SpecEM
MaxEMCalls == 2

\* get_initial_kde_estimates skips a biomarker with fewer measurements
MinMeasurements == 5

\* A weight vector is held exactly: entry i is num[i] / den, with den > 0 and
\* the numerators and den without a common factor.
RECURSIVE Gcd(_, _)
Gcd(a, b) == IF b = 0 THEN a ELSE Gcd(b, a % b)

RECURSIVE GcdUpTo(_, _)
GcdUpTo(num, k) == IF k = 0 THEN 0 ELSE Gcd(GcdUpTo(num, k - 1), num[k])

Weights(num, den) ==
    LET g == Gcd(GcdUpTo(num, Len(num)), den)
    IN  [num |-> [i \in 1 .. Len(num) |-> num[i] \div g], den |-> den \div g]

RECURSIVE SumUpTo(_, _)
SumUpTo(num, k) == IF k = 0 THEN 0 ELSE SumUpTo(num, k - 1) + num[k]

\* np.sum(w), as a multiple of 1 / w.den
Sum(w) == SumUpTo(w.num, Len(w.num))

\* np.ones_like(w)
Ones(n) == Weights([i \in 1 .. n |-> 1], 1)

\* np.ones_like(w) / len(w)
Uniform(n) == Weights([i \in 1 .. n |-> 1], n)

\* w / np.sum(w), for a positive sum
DividedBySum(w) == Weights(w.num, Sum(w))

\* the participants with a measurement of the biomarker
participants == <<"p1", "p2", "p3", "p4", "p5">>

\* the disease statuses of the participants: nobody diseased, everybody
\* diseased, a mix
DiseasedVectors ==
    {[i \in 1 .. Len(participants) |-> FALSE],
     [i \in 1 .. Len(participants) |-> TRUE],
     [i \in 1 .. Len(participants) |-> i >= 3]}

\* the measurements of the biomarker
MeasurementVectors == {<<1, 2, 3, 4, 5>>, <<0, 1, 1, 2, 4>>}

\* posterior distributions of a participant over the stages 1..S, in halves:
\* stage 1 for certain, and stages 2 and 3 with probability 1/2 each
StageDistributions == {<<2, 0, 0>>, <<0, 1, 1>>}

\* the denominator of the probabilities of StageDistributions: what the
\* entries of a distribution add up to
ProbabilityDen ==
    LET d == CHOOSE d \in StageDistributions : TRUE IN SumUpTo(d, Len(d))

\* stage_post: a distribution for every participant
StagePosteriors ==
    {[i \in 1 .. Len(participants) |-> d] : d \in StageDistributions}
    \cup {[i \in 1 .. Len(participants) |->
              IF i % 2 = 1 THEN <<2, 0, 0>> ELSE <<0, 1, 1>>]}

\* values of weight_change_threshold <<numerator, denominator>>: 0, the
\* default 0.01, and 0.2
Thresholds == {<<0, 1>>, <<1, 100>>, <<1, 5>>}

\* the sum of the squares of the sample points
RECURSIVE SumSqUpTo(_, _)
SumSqUpTo(data, k) ==
    IF k = 0 THEN 0 ELSE SumSqUpTo(data, k - 1) + data[k] * data[k]

\* the bandwidth argument: 'silverman' or a float
Silverman == [rule |-> "silverman", value |-> 0]

Float(b) == [rule |-> "float", value |-> b]

\* A bandwidth is held exactly. Under rule "float" it is num / den. Under
\* rule "silverman" it is sqrt(num / den) * (4 / (3 n)) ^ (1/5), with num / den
\* the variance of the sample points; under rule "silverman_min_sigma" it is
\* (num / den) * (4 / (3 n)) ^ (1/5), with num / den = 1e-6.

\* the float as it is, with no least value
float_bandwidth_unbounded(b) == [rule |-> "float", num |-> b, den |-> 1, n |-> 1]

\* max(float(bandwidth), 1e-6)
float_bandwidth(b) ==
    IF b * 1000000 > 1 THEN [rule |-> "float", num |-> b, den |-> 1, n |-> 1]
    ELSE [rule |-> "float", num |-> 1, den |-> 1000000, n |-> 1]

\* Silverman's rule: n = len(data); sigma = max(np.std(data), 1e-6);
\* sigma * (4 / (3 * n)) ** (1/5). The sample points are whole numbers, so a
\* standard deviation other than 0 is at least 1 / n, above 1e-6.
silverman_bandwidth(data) ==
    LET n == Len(data)
        var_num == n * SumSqUpTo(data, n) - SumUpTo(data, n) * SumUpTo(data, n)
    IN  IF var_num > 0
        THEN [rule |-> "silverman", num |-> var_num, den |-> n * n, n |-> n]
        ELSE [rule |-> "silverman_min_sigma", num |-> 1, den |-> 1000000, n |-> n]

\* FastKDE.__init__: a new object; the weights default to ones and are
\* divided by their sum when it is positive; the bandwidth follows
\* Silverman's rule or is the float given, neither below 1e-6
FastKDE(id, data, weights, bandwidth) ==
    LET w == IF weights = <<>> THEN Ones(Len(data)) ELSE weights
    IN  [id |-> id,
         data |-> data,
         weights |-> IF Sum(w) > 0 THEN DividedBySum(w) ELSE w,
         bandwidth |-> IF bandwidth.rule = "silverman"
                       THEN silverman_bandwidth(data)
                       ELSE float_bandwidth(bandwidth.value)]

\* get_two_clusters_with_kmeans: the measurements in two clusters, here the
\* first k and the rest
get_two_clusters_with_kmeans(m, k) ==
    <<SubSeq(m, 1, k), SubSeq(m, k + 1, Len(m))>>

\* get_initial_kde_estimates, for one biomarker: two KDEs with uniform
\* weights over their clusters, and uniform weight vectors over the
\* participants; nothing for a biomarker with too few measurements
get_initial_kde_estimates(m, k) ==
    IF Len(m) < MinMeasurements THEN <<>>
    ELSE LET clusters == get_two_clusters_with_kmeans(m, k)
             data_size == Len(participants)
         IN  [theta_kde |-> FastKDE(0, clusters[1], <<>>, Silverman),
              theta_weights |-> Uniform(data_size),
              phi_kde |-> FastKDE(1, clusters[2], <<>>, Silverman),
              phi_weights |-> Uniform(data_size)]

\* np.sum(probs[disease_stages >= curr_order])
MassFrom(probs, curr_order) ==
    SumUpTo(probs, Len(probs)) - SumUpTo(probs, curr_order - 1)

\* np.sum(probs[disease_stages < curr_order])
MassBelow(probs, curr_order) == SumUpTo(probs, curr_order - 1)

\* fast_kde.py 386-398: the weights before normalization
RawThetaWeights(dis, stage_post, curr_order) ==
    Weights([i \in 1 .. Len(dis) |->
                IF ~dis[i] THEN 0 ELSE MassFrom(stage_post[i], curr_order)],
            ProbabilityDen)

RawPhiWeights(dis, stage_post, curr_order) ==
    Weights([i \in 1 .. Len(dis) |->
                IF ~dis[i] THEN ProbabilityDen
                ELSE MassBelow(stage_post[i], curr_order)],
            ProbabilityDen)

\* the weights divided by their sum, with nothing done about a sum of 0
Normalized_no_fallback(w) == IF Sum(w) > 0 THEN DividedBySum(w) ELSE w

\* fast_kde.py 400-411: the weights divided by their sum, or uniform weights
\* when the sum is not positive
Normalized(w) == IF Sum(w) > 0 THEN DividedBySum(w) ELSE Uniform(Len(w.num))

\* np.sum(np.abs(new_weights - old_weights)), as a multiple of
\* 1 / (new_w.den * old_w.den)
RECURSIVE AbsDiffUpTo(_, _, _)
AbsDiffUpTo(new_w, old_w, k) ==
    IF k = 0 THEN 0
    ELSE LET d == new_w.num[k] * old_w.den - old_w.num[k] * new_w.den
         IN  AbsDiffUpTo(new_w, old_w, k - 1) + (IF d < 0 THEN 0 - d ELSE d)

\* np.mean(np.abs(new_weights - old_weights)) < threshold
MeanAbsDiffBelow(new_w, old_w, threshold) ==
    AbsDiffUpTo(new_w, old_w, Len(new_w.num)) * threshold[2]
        < threshold[1] * new_w.den * old_w.den * Len(new_w.num)

\* the new weights returned with a KDE that is reused
KeptWeights_new(new_w, old_w) == new_w

\* a reused KDE comes with the weights stored with it ("Keep existing
\* weights")
KeptWeights(new_w, old_w) == old_w

\* the existing KDE kept when the change does not exceed the threshold
KeepsKDE_inclusive(new_w, old_w, threshold) ==
    AbsDiffUpTo(new_w, old_w, Len(new_w.num)) * threshold[2]
        <= threshold[1] * new_w.den * old_w.den * Len(new_w.num)

\* fast_kde.py 414, 422: the existing KDE is kept when the mean absolute
\* change of the weights is below the threshold
KeepsKDE(new_w, old_w, threshold) == MeanAbsDiffBelow(new_w, old_w, threshold)

\* update_kde_for_biomarker_em: the new parameter set of the biomarker;
\* next_id is the identity of the next KDE object constructed
update_kde_for_biomarker_em(m, dis, stage_post, current, curr_order, threshold, next_id) ==
    LET theta_w == Normalized(RawThetaWeights(dis, stage_post, curr_order))
        phi_w == Normalized(RawPhiWeights(dis, stage_post, curr_order))
        keep_theta == KeepsKDE(theta_w, current.theta_weights, threshold)
        keep_phi == KeepsKDE(phi_w, current.phi_weights, threshold)
        phi_id == IF keep_theta THEN next_id ELSE next_id + 1
    IN  [theta_kde |-> IF keep_theta THEN current.theta_kde
                       ELSE FastKDE(next_id, m, theta_w, Silverman),
         theta_weights |-> IF keep_theta THEN KeptWeights(theta_w, current.theta_weights)
                           ELSE theta_w,
         phi_kde |-> IF keep_phi THEN current.phi_kde
                     ELSE FastKDE(phi_id, m, phi_w, Silverman),
         phi_weights |-> IF keep_phi THEN KeptWeights(phi_w, current.phi_weights)
                         ELSE phi_w]

\* EPSILON and the kernel hold densities in units of 1e-8.

\* SQRT_2PI * exp(-0.5 * u * u) for u = 0, 1/2, 1, ..., 9, in units of 1e-8
GaussianTable ==
    <<39894228, 35206533, 24197072, 12951760, 5399097, 1752830, 443185,
      87268, 13383, 1598, 149, 11, 1, 0, 0, 0, 0, 0, 0>>

\* gaussian_kernel: u = (x - xi) / bandwidth;
\* SQRT_2PI * exp(-0.5 * u * u) / bandwidth, for a bandwidth under rule
\* "float" that makes u a multiple of 1/2
gaussian_kernel(x, xi, bandwidth) ==
    LET d == IF x >= xi THEN x - xi ELSE xi - x
        half_u == (2 * d * bandwidth.den) \div bandwidth.num
    IN  IF half_u >= Len(GaussianTable) THEN 0
        ELSE (GaussianTable[half_u + 1] * bandwidth.den) \div bandwidth.num

\* a density num / den, in lowest terms
Density(num, den) ==
    LET g == Gcd(num, den)
    IN  [floor |-> FALSE, num |-> num \div g, den |-> den \div g]

\* log(EPSILON) if pdf < EPSILON else log(pdf), for pdf = num / den: the
\* logarithm is held by its argument, EPSILON being 1/100 of the unit
LogOrFloor(num, den) ==
    IF num < den /\ 100 * num < den
    THEN [floor |-> TRUE, num |-> 1, den |-> 100]
    ELSE Density(num, den)

\* the inner loop of _compute_kde_logpdf from position j on: the weighted
\* kernels are added up until the row ends or a sample point is 0
RECURSIVE kernel_sum(_, _, _, _, _)
kernel_sum(x, data, weights, bw, j) ==
    IF j > Len(data) THEN 0
    ELSE IF data[j] = 0 THEN 0
    ELSE weights[j] * gaussian_kernel(x, data[j], bw)
         + kernel_sum(x, data, weights, bw, j + 1)

\* _compute_kde_logpdf: the terms of the total, one for every measurement.
\* kde_data and kde_weights hold the rows from 0 on and bandwidths the
\* biomarkers from 0 on; a row of weights is num[j] / den.
ComputeKdeLogpdf(measurements_, stages, bio_indices, kde_data, kde_weights, bandwidths) ==
    [i \in 1 .. Len(measurements_) |->
        LET idx == bio_indices[i]
            x == measurements_[i]
            data_row == idx * 2 + (IF stages[i] THEN 0 ELSE 1)
            weights_row == idx * 2 + (IF stages[i] THEN 0 ELSE 1)
            data == kde_data[data_row]
            weights == kde_weights[weights_row]
            bw == bandwidths[idx]
        IN  LogOrFloor(kernel_sum(x, data, weights.num, bw, 1), weights.den)]

\* the biomarker names in np.unique's order
SortedBiomarkers == <<"AB", "TAU">>

\* np.unique(biomarkers)
Unique(names) ==
    SelectSeq(SortedBiomarkers, LAMBDA b : \E i \in 1 .. Len(names) : names[i] = b)

\* a row of the pre-allocated arrays: the values, then zeros up to size
PaddedRow(values, size) ==
    [j \in 1 .. size |-> IF j <= Len(values) THEN values[j] ELSE 0]

Larger(a, b) == IF a >= b THEN a ELSE b

RECURSIVE MaxDataSize(_, _, _)
MaxDataSize(kdes, unique_bios, k) ==
    IF k = 0 THEN 0
    ELSE Larger(MaxDataSize(kdes, unique_bios, k - 1),
                Larger(Len(kdes[unique_bios[k]].theta_kde.data),
                       Len(kdes[unique_bios[k]].phi_kde.data)))

\* compute_ln_likelihood_kde_fast: the stage indicators, the biomarker
\* indices, the padded rows (row 2 i for theta and row 2 i + 1 for phi of
\* biomarker i) and one bandwidth for every biomarker, that of its theta KDE
compute_ln_likelihood_kde_fast(measurements_, S_n, names, k_j, kdes) ==
    LET stages == [i \in 1 .. Len(k_j) |-> k_j[i] >= S_n]
        unique_bios == Unique(names)
        bio_indices ==
            [i \in 1 .. Len(names) |->
                (CHOOSE k \in 1 .. Len(unique_bios) : unique_bios[k] = names[i]) - 1]
        max_data_size == MaxDataSize(kdes, unique_bios, Len(unique_bios))
        kde_of(row) ==
            IF row % 2 = 0 THEN kdes[unique_bios[(row \div 2) + 1]].theta_kde
            ELSE kdes[unique_bios[(row \div 2) + 1]].phi_kde
        kde_data ==
            [row \in 0 .. (2 * Len(unique_bios) - 1) |->
                PaddedRow(kde_of(row).data, max_data_size)]
        kde_weights ==
            [row \in 0 .. (2 * Len(unique_bios) - 1) |->
                [num |-> PaddedRow(kde_of(row).weights.num, max_data_size),
                 den |-> kde_of(row).weights.den]]
        bandwidths ==
            [i \in 0 .. (Len(unique_bios) - 1) |->
                kdes[unique_bios[i + 1]].theta_kde.bandwidth]
    IN  ComputeKdeLogpdf(measurements_, stages, bio_indices, kde_data,
                         kde_weights, bandwidths)

\* the sample points given to the constructor
SampleVectors == {<<1, 2>>, <<1, 0, 2>>, <<2, 2>>, <<2>>}

\* the weights given to the constructor: none, or a weight for every sample
\* point: all 0, all 1/2, 1 for the first only, or 1, 2, 3, ...
WeightPatterns == {"omitted", "zeros", "halves", "first", "ascending"}

WeightArgument(pattern, n) ==
    IF pattern = "omitted" THEN <<>>
    ELSE IF pattern = "zeros" THEN [num |-> [i \in 1 .. n |-> 0], den |-> 1]
    ELSE IF pattern = "halves" THEN [num |-> [i \in 1 .. n |-> 1], den |-> 2]
    ELSE IF pattern = "first"
         THEN [num |-> [i \in 1 .. n |-> IF i = 1 THEN 1 ELSE 0], den |-> 1]
    ELSE [num |-> [i \in 1 .. n |-> i], den |-> 1]

\* the bandwidths given to the constructor
BandwidthArguments == {Silverman, Float(0 - 1), Float(0), Float(1), Float(2)}

\* the KDEs given to the likelihood: uniform or ascending weights, bandwidth
\* 1 or 2
LikelihoodKDEs(id) ==
    {FastKDE(id, d, WeightArgument(p, Len(d)), Float(b)) :
        d \in SampleVectors, p \in {"omitted", "ascending"}, b \in {1, 2}}

\* the KDEs of the second biomarker
OtherKDEs ==
    [theta_kde |-> FastKDE(2, <<1>>, <<>>, Float(1)),
     phi_kde |-> FastKDE(3, <<2, 1, 1>>, <<>>, Float(2))]

\* a measurement of the batch: its biomarker, its value and the stage k_j
BatchEntries ==
    [biomarker : {"AB", "TAU"}, measurement : {1, 9}, k_j : {1, 2}]

\* the batches of two measurements
Batches == {<<a, b>> : a \in BatchEntries, b \in BatchEntries}

\* the values of S_n
StageThresholds == {2}

VARIABLES
    measurements,           \* the measurements of the biomarker
    diseased,               \* the disease status of every participant
    theta_phi_current,      \* the biomarker's parameter set
    kde_objects,            \* FastKDE objects constructed so far
    em_calls,               \* calls of the updater so far
    last_call,              \* the arguments and the weights of the last call
    kde_args,               \* the arguments of a call of FastKDE
    new_kde,                \* the object that call constructed
    kde_dict,               \* the KDEs of every biomarker
    batch,                  \* the arguments of a likelihood call
    ln_likelihood           \* what that call returned

\* the variables of the constructor and of the likelihood
kde_vars == <<kde_args, new_kde, kde_dict, batch, ln_likelihood>>

em_vars ==
    <<measurements, diseased, theta_phi_current, kde_objects, em_calls, last_call,
      kde_vars>>

\* no call of the constructor and none of the likelihood
KDEIdle ==
    /\ kde_args = <<>>
    /\ new_kde = <<>>
    /\ kde_dict = <<>>
    /\ batch = <<>>
    /\ ln_likelihood = <<>>

\* no call of the updater yet
NoCall == [called |-> FALSE]

----------------------------------------------------------------------------
(* State *)

VARIABLES
    entry,                  \* how the run was started
    algorithm,              \* the algorithm argument
    iterations,             \* the iterations argument
    n_shuffle,              \* the n_shuffle argument
    rpc,                    \* where run_ebm is
    pc,                     \* where metropolis_hastings is
    error,                  \* the exception that ended the run
    data_loaded,            \* run_ebm has read the data file
    theta_phi_default,
    current_theta_phi,
    arrays,                 \* the order arrays, by object
    current_order,          \* the array object current_order names
    new_order,              \* the array object new_order names
    current_order_dict,
    new_order_dict,
    current_ln_likelihood,
    new_ln_likelihood,
    new_theta_phi,
    stage_likelihoods_posteriors,
    likelihood_theta_phi,   \* the parameters the last likelihood was computed under
    acceptance_count,
    iteration,              \* iterations of the loop completed
    all_accepted_orders,
    log_likelihoods,
    likelihood,             \* the likelihood function, where it has been evaluated
    rand_draws,             \* calls of np.random.rand() so far
    chain                   \* history: the chain's state after each decision

vars ==
    <<entry, algorithm, iterations, n_shuffle, rpc, pc, error, data_loaded,
      theta_phi_default, current_theta_phi, arrays, current_order, new_order,
      current_order_dict, new_order_dict, current_ln_likelihood,
      new_ln_likelihood, new_theta_phi, stage_likelihoods_posteriors,
      likelihood_theta_phi, acceptance_count, iteration, all_accepted_orders,
      log_likelihoods, likelihood, rand_draws, chain>>

inputs == <<entry, algorithm, iterations, n_shuffle>>

sampler_vars ==
    <<theta_phi_default, current_theta_phi, arrays, current_order, new_order,
      current_order_dict, new_order_dict, current_ln_likelihood,
      new_ln_likelihood, new_theta_phi, stage_likelihoods_posteriors,
      likelihood_theta_phi, acceptance_count, iteration, all_accepted_orders,
      log_likelihoods, likelihood, rand_draws, chain>>

NoArray == 0 - 1

Init ==
    /\ entry \in EntryPoints
    /\ algorithm \in AlgorithmNames
    /\ iterations \in 0 .. MaxIterations
    /\ n_shuffle \in 0 .. MaxShuffle
    /\ rpc = IF entry = "run_ebm" THEN "start" ELSE "none"
    /\ pc = "idle"
    /\ error = "none"
    /\ data_loaded = FALSE
    /\ theta_phi_default = <<>>
    /\ current_theta_phi = <<>>
    /\ arrays = [r \in {0, 1} |-> <<>>]
    /\ current_order = NoArray
    /\ new_order = NoArray
    /\ current_order_dict = Unbound
    /\ new_order_dict = Unbound
    /\ current_ln_likelihood = NegInf
    /\ new_ln_likelihood = NegInf
    /\ new_theta_phi = Unbound
    /\ stage_likelihoods_posteriors = Unbound
    /\ likelihood_theta_phi = Unbound
    /\ acceptance_count = 0
    /\ iteration = 0
    /\ all_accepted_orders = <<>>
    /\ log_likelihoods = <<>>
    /\ likelihood = <<>>
    /\ rand_draws = 0
    /\ chain = <<>>
    /\ measurements = <<>>
    /\ diseased = <<>>
    /\ theta_phi_current = <<>>
    /\ kde_objects = 0
    /\ em_calls = 0
    /\ last_call = NoCall
    /\ KDEIdle

----------------------------------------------------------------------------
(* run_ebm *)

\* run.py 60-62: the check of the algorithm name
RunValidate ==
    /\ rpc = "start"
    /\ IF algorithm \notin allowed_algorithms
       THEN /\ rpc' = "raised"
            /\ error' = "ValueError"
       ELSE /\ rpc' = "setup"
            /\ error' = error
    /\ UNCHANGED <<em_vars, inputs, pc, data_loaded, sampler_vars>>

\* run.py 64-104: output folders, logging, pd.read_csv (which may raise)
RunLoad ==
    /\ rpc = "setup"
    /\ \E readable \in BOOLEAN :
        IF readable
        THEN /\ rpc' = "call"
             /\ data_loaded' = TRUE
             /\ error' = error
        ELSE /\ rpc' = "raised"
             /\ data_loaded' = FALSE
             /\ error' = "read_csv"
    /\ UNCHANGED <<em_vars, inputs, pc, sampler_vars>>

\* run.py 106-112: the call of metropolis_hastings; an argument that does not
\* bind raises TypeError, which is logged and raised again
RunCall ==
    /\ rpc = "call"
    /\ IF CallBinds
       THEN /\ rpc' = "in_sampler"
            /\ error' = error
       ELSE /\ rpc' = "raised"
            /\ error' = "TypeError"
    /\ UNCHANGED <<em_vars, inputs, pc, data_loaded, sampler_vars>>

----------------------------------------------------------------------------
(* metropolis_hastings *)

\* algorithm.py 32-50: the state before the loop
MHStart ==
    /\ pc = "idle"
    /\ entry = "metropolis_hastings" \/ rpc = "in_sampler"
    /\ \E perm \in OrderPermutations :
        /\ arrays' = [arrays EXCEPT ![0] = perm]
        /\ current_order_dict' = Bound(DictZip(biomarkers, perm))
    /\ current_order' = 0
    /\ theta_phi_default' = get_theta_phi_estimates
    /\ current_theta_phi' = get_theta_phi_estimates
    /\ current_ln_likelihood' = NegInf
    /\ acceptance_count' = 0
    /\ all_accepted_orders' = <<>>
    /\ log_likelihoods' = <<>>
    /\ iteration' = 0
    /\ pc' = "loop"
    /\ UNCHANGED <<em_vars, inputs, rpc, error, data_loaded, new_order, new_order_dict,
                   new_ln_likelihood, new_theta_phi,
                   stage_likelihoods_posteriors, likelihood_theta_phi,
                   likelihood, rand_draws, chain>>

\* algorithm.py 52-57: the loop goes on; the current log likelihood is
\* recorded and a shuffled copy of the current order is proposed
Propose ==
    /\ pc = "loop"
    /\ LoopGoesOn(iteration, iterations)
    /\ log_likelihoods' = Append(log_likelihoods, current_ln_likelihood)
    /\ LET target == CopyTarget(current_order)
           copied == [arrays EXCEPT ![target] = arrays[current_order]]
       IN  \E shuffled \in shuffle_order(copied[target], n_shuffle) :
               /\ arrays' = [copied EXCEPT ![target] = shuffled]
               /\ new_order' = target
               /\ new_order_dict' = Bound(DictZip(biomarkers, shuffled))
    /\ pc' = "evaluate"
    /\ UNCHANGED <<em_vars, inputs, rpc, error, data_loaded, theta_phi_default,
                   current_theta_phi, current_order, current_order_dict,
                   current_ln_likelihood, new_ln_likelihood, new_theta_phi,
                   stage_likelihoods_posteriors, likelihood_theta_phi,
                   acceptance_count, iteration, all_accepted_orders,
                   likelihood, rand_draws, chain>>

\* the total log likelihood of an ordering under parameters: the value the
\* likelihood function has there, which is chosen when it is first evaluated
Likelihood(order_dict, theta_phi, ll) ==
    LET args == LikelihoodArgs(order_dict, theta_phi)
        seen == {i \in 1 .. Len(likelihood) : likelihood[i].args = args}
    IN  /\ ll \in LogLikValues
        /\ \A i \in seen : likelihood[i].value = ll
        /\ likelihood' = IF seen = {} THEN Append(likelihood, [args |-> args, value |-> ll])
                         ELSE likelihood

\* algorithm.py 69-103: the branch that re-estimates theta and phi
EvaluateReestimate ==
    /\ pc = "evaluate"
    /\ algorithm \in ReestimatingAlgorithms
    /\ LET order_dict == ValueOf(new_order_dict)
           posteriors == stage_likelihoods(order_dict, current_theta_phi)
           estimate == update_theta_phi_estimates(order_dict, current_theta_phi,
                                                  posteriors, algorithm)
       IN  /\ stage_likelihoods_posteriors' = Bound(posteriors)
           /\ new_theta_phi' = Bound(estimate)
           /\ likelihood_theta_phi' = Bound(estimate)
           /\ \E ll \in LogLikValues :
               /\ Likelihood(order_dict, estimate, ll)
               /\ new_ln_likelihood' = ll
    /\ pc' = "decide"
    /\ UNCHANGED <<em_vars, inputs, rpc, error, data_loaded, theta_phi_default,
                   current_theta_phi, arrays, current_order, new_order,
                   current_order_dict, new_order_dict, current_ln_likelihood,
                   acceptance_count, iteration, all_accepted_orders,
                   log_likelihoods, rand_draws, chain>>

\* algorithm.py 69, 104-111: the branch of every other algorithm name
EvaluateDefault ==
    /\ pc = "evaluate"
    /\ algorithm \notin ReestimatingAlgorithms
    /\ likelihood_theta_phi' = Bound(theta_phi_default)
    /\ \E ll \in LogLikValues :
        /\ Likelihood(ValueOf(new_order_dict), theta_phi_default, ll)
        /\ new_ln_likelihood' = ll
    /\ pc' = "decide"
    /\ UNCHANGED <<em_vars, inputs, rpc, error, data_loaded, theta_phi_default,
                   current_theta_phi, arrays, current_order, new_order,
                   current_order_dict, new_order_dict, current_ln_likelihood,
                   new_theta_phi, stage_likelihoods_posteriors,
                   acceptance_count, iteration, all_accepted_orders,
                   log_likelihoods, rand_draws, chain>>

\* np.random.rand() < prob_accept
AcceptTest(u, new_ll, cur_ll) == u < prob_accept(new_ll, cur_ll)

\* algorithm.py 122: if algorithm != 'hard_kmeans'
TakesNewThetaPhi(algo) == algo # "hard_kmeans"

\* the proposal appended, accepted or not
AppendedOrder_proposal(cur_dict, proposed_dict) == proposed_dict

\* algorithm.py 126: all_accepted_orders.append(current_order_dict.copy())
AppendedOrder(cur_dict, proposed_dict) == cur_dict

\* algorithm.py 114-126, the draw is below prob_accept: the proposal becomes
\* the current state.  Reading new_theta_phi when no iteration has assigned it
\* raises UnboundLocalError, after the order and the log likelihood have been
\* replaced.
Accept ==
    /\ pc = "decide"
    /\ \E u \in RandValues : AcceptTest(u, new_ln_likelihood, current_ln_likelihood)
    /\ rand_draws' = rand_draws + 1
    /\ current_order' = new_order
    /\ current_order_dict' = new_order_dict
    /\ current_ln_likelihood' = new_ln_likelihood
    /\ IF TakesNewThetaPhi(algorithm) /\ ~IsBound(new_theta_phi)
       THEN /\ pc' = "raised"
            /\ error' = "UnboundLocalError"
            /\ UNCHANGED <<current_theta_phi, acceptance_count,
                           all_accepted_orders, iteration, chain>>
       ELSE /\ current_theta_phi' = IF TakesNewThetaPhi(algorithm)
                                    THEN ValueOf(new_theta_phi)
                                    ELSE current_theta_phi
            /\ acceptance_count' = acceptance_count + 1
            /\ all_accepted_orders' =
                   Append(all_accepted_orders,
                          ValueOf(AppendedOrder(current_order_dict', new_order_dict)))
            /\ chain' = Append(chain, [order |-> ValueOf(current_order_dict'),
                                       ln_likelihood |-> current_ln_likelihood',
                                       theta_phi |-> current_theta_phi',
                                       accepted |-> TRUE])
            /\ iteration' = iteration + 1
            /\ pc' = "loop"
            /\ error' = error
    /\ UNCHANGED <<em_vars, inputs, rpc, data_loaded, theta_phi_default, arrays,
                   new_order, new_order_dict, new_ln_likelihood, new_theta_phi,
                   stage_likelihoods_posteriors, likelihood_theta_phi,
                   log_likelihoods, likelihood>>

\* algorithm.py 114-126, the draw is not below prob_accept: the current
\* state stays and is appended again
Reject ==
    /\ pc = "decide"
    /\ \E u \in RandValues : ~AcceptTest(u, new_ln_likelihood, current_ln_likelihood)
    /\ rand_draws' = rand_draws + 1
    /\ all_accepted_orders' =
           Append(all_accepted_orders,
                  ValueOf(AppendedOrder(current_order_dict, new_order_dict)))
    /\ chain' = Append(chain, [order |-> ValueOf(current_order_dict),
                               ln_likelihood |-> current_ln_likelihood,
                               theta_phi |-> current_theta_phi,
                               accepted |-> FALSE])
    /\ iteration' = iteration + 1
    /\ pc' = "loop"
    /\ UNCHANGED <<em_vars, inputs, rpc, error, data_loaded, theta_phi_default,
                   current_theta_phi, arrays, current_order, new_order,
                   current_order_dict, new_order_dict, current_ln_likelihood,
                   new_ln_likelihood, new_theta_phi,
                   stage_likelihoods_posteriors, likelihood_theta_phi,
                   acceptance_count, log_likelihoods, likelihood>>

\* algorithm.py 52, 138 and run.py 108: range(iterations) is exhausted and the
\* two traces are returned; under run_ebm the result is unpacked
Return ==
    /\ pc = "loop"
    /\ ~LoopGoesOn(iteration, iterations)
    /\ pc' = "returned"
    /\ IF entry = "run_ebm"
       THEN IF UnpackFits
            THEN /\ rpc' = "unpacked"
                 /\ error' = error
            ELSE /\ rpc' = "raised"
                 /\ error' = "ValueError_unpack"
       ELSE UNCHANGED <<rpc, error>>
    /\ UNCHANGED <<em_vars, inputs, data_loaded, sampler_vars>>

Next ==
    \/ RunValidate
    \/ RunLoad
    \/ RunCall
    \/ MHStart
    \/ Propose
    \/ EvaluateReestimate
    \/ EvaluateDefault
    \/ Accept
    \/ Reject
    \/ Return

Spec == Init /\ [][Next]_<<vars, em_vars>>


----------------------------------------------------------------------------
(* The EM updater applied to one biomarker's parameter set *)

mh_vars == <<inputs, rpc, pc, error, data_loaded, sampler_vars>>

InitEM ==
    /\ entry = "none"
    /\ algorithm = "kde"
    /\ iterations = 0
    /\ n_shuffle = 0
    /\ rpc = "none"
    /\ pc = "none"
    /\ error = "none"
    /\ data_loaded = FALSE
    /\ theta_phi_default = <<>>
    /\ current_theta_phi = <<>>
    /\ arrays = [r \in {0, 1} |-> <<>>]
    /\ current_order = NoArray
    /\ new_order = NoArray
    /\ current_order_dict = Unbound
    /\ new_order_dict = Unbound
    /\ current_ln_likelihood = NegInf
    /\ new_ln_likelihood = NegInf
    /\ new_theta_phi = Unbound
    /\ stage_likelihoods_posteriors = Unbound
    /\ likelihood_theta_phi = Unbound
    /\ acceptance_count = 0
    /\ iteration = 0
    /\ all_accepted_orders = <<>>
    /\ log_likelihoods = <<>>
    /\ likelihood = <<>>
    /\ rand_draws = 0
    /\ chain = <<>>
    /\ measurements \in MeasurementVectors
    /\ diseased \in DiseasedVectors
    /\ \E k \in {2, 3} :
        theta_phi_current = get_initial_kde_estimates(measurements, k)
    /\ kde_objects = 2
    /\ em_calls = 0
    /\ last_call = NoCall
    /\ KDEIdle

\* one call of update_kde_for_biomarker_em, whose result becomes the
\* biomarker's parameter set
EMUpdate ==
    /\ em_calls < MaxEMCalls
    /\ \E stage_post \in StagePosteriors, curr_order \in diseased_stages,
          threshold \in Thresholds :
            /\ theta_phi_current' =
                   update_kde_for_biomarker_em(
                       measurements, diseased, stage_post, theta_phi_current,
                       curr_order, threshold, kde_objects)
            /\ kde_objects' =
                   kde_objects
                   + Cardinality({theta_phi_current'.theta_kde.id,
                                  theta_phi_current'.phi_kde.id}
                                 \ {theta_phi_current.theta_kde.id,
                                    theta_phi_current.phi_kde.id})
            /\ last_call' =
                   [called |-> TRUE,
                    threshold |-> threshold,
                    curr_order |-> curr_order,
                    raw_theta |-> RawThetaWeights(diseased, stage_post, curr_order),
                    raw_phi |-> RawPhiWeights(diseased, stage_post, curr_order),
                    new_theta |-> Normalized(RawThetaWeights(diseased, stage_post, curr_order)),
                    new_phi |-> Normalized(RawPhiWeights(diseased, stage_post, curr_order)),
                    previous |-> theta_phi_current]
    /\ em_calls' = em_calls + 1
    /\ UNCHANGED <<mh_vars, measurements, diseased, kde_vars>>

NextEM == EMUpdate

SpecEM == InitEM /\ [][NextEM]_<<vars, em_vars>>

----------------------------------------------------------------------------
(* The KDE constructor on its own, and the likelihood on its own *)

\* no sampler and no run_ebm
SamplerIdle ==
    /\ entry = "none"
    /\ algorithm = "kde"
    /\ iterations = 0
    /\ n_shuffle = 0
    /\ rpc = "none"
    /\ pc = "none"
    /\ error = "none"
    /\ data_loaded = FALSE
    /\ theta_phi_default = <<>>
    /\ current_theta_phi = <<>>
    /\ arrays = [r \in {0, 1} |-> <<>>]
    /\ current_order = NoArray
    /\ new_order = NoArray
    /\ current_order_dict = Unbound
    /\ new_order_dict = Unbound
    /\ current_ln_likelihood = NegInf
    /\ new_ln_likelihood = NegInf
    /\ new_theta_phi = Unbound
    /\ stage_likelihoods_posteriors = Unbound
    /\ likelihood_theta_phi = Unbound
    /\ acceptance_count = 0
    /\ iteration = 0
    /\ all_accepted_orders = <<>>
    /\ log_likelihoods = <<>>
    /\ likelihood = <<>>
    /\ rand_draws = 0
    /\ chain = <<>>

\* no EM updater
UpdaterIdle ==
    /\ measurements = <<>>
    /\ diseased = <<>>
    /\ theta_phi_current = <<>>
    /\ kde_objects = 0
    /\ em_calls = 0
    /\ last_call = NoCall

updater_vars ==
    <<measurements, diseased, theta_phi_current, kde_objects, em_calls, last_call>>

InitKDE ==
    /\ SamplerIdle
    /\ UpdaterIdle
    /\ \E d \in SampleVectors, p \in WeightPatterns, b \in BandwidthArguments :
           kde_args = [data |-> d, weights |-> WeightArgument(p, Len(d)),
                       bandwidth |-> b]
    /\ new_kde = Unbound
    /\ kde_dict = <<>>
    /\ batch = <<>>
    /\ ln_likelihood = <<>>

\* FastKDE(data, weights, bandwidth)
Construct ==
    /\ ~IsBound(new_kde)
    /\ new_kde' = Bound(FastKDE(0, kde_args.data, kde_args.weights, kde_args.bandwidth))
    /\ UNCHANGED <<mh_vars, updater_vars, kde_args, kde_dict, batch, ln_likelihood>>

NextKDE == Construct

SpecKDE == InitKDE /\ [][NextKDE]_<<vars, em_vars>>

InitLikelihood ==
    /\ SamplerIdle
    /\ UpdaterIdle
    /\ kde_args = <<>>
    /\ new_kde = <<>>
    /\ \E theta \in LikelihoodKDEs(0), phi \in LikelihoodKDEs(1) :
           kde_dict = [b \in {"AB", "TAU"} |->
                          IF b = "AB" THEN [theta_kde |-> theta, phi_kde |-> phi]
                          ELSE OtherKDEs]
    /\ \E b \in Batches, S_n \in StageThresholds : batch = [entries |-> b, S_n |-> S_n]
    /\ ln_likelihood = Unbound

\* compute_ln_likelihood_kde_fast(measurements, S_n, biomarkers, k_j, kde_dict)
ComputeLnLikelihood ==
    /\ ~IsBound(ln_likelihood)
    /\ ln_likelihood' =
           Bound(compute_ln_likelihood_kde_fast(
                     [i \in 1 .. Len(batch.entries) |-> batch.entries[i].measurement],
                     batch.S_n,
                     [i \in 1 .. Len(batch.entries) |-> batch.entries[i].biomarker],
                     [i \in 1 .. Len(batch.entries) |-> batch.entries[i].k_j],
                     kde_dict))
    /\ UNCHANGED <<mh_vars, updater_vars, kde_args, new_kde, kde_dict, batch>>

NextLikelihood == ComputeLnLikelihood

SpecLikelihood == InitLikelihood /\ [][NextLikelihood]_<<vars, em_vars>>

----------------------------------------------------------------------------
(* run_ebm's choice of the order with the highest log likelihood *)

\* max(log_likelihoods)
RECURSIVE MaxUpTo(_, _)
MaxUpTo(lls, k) ==
    IF k = 1 THEN lls[1]
    ELSE IF lls[k] > MaxUpTo(lls, k - 1) THEN lls[k] ELSE MaxUpTo(lls, k - 1)

MaxOf(lls) == MaxUpTo(lls, Len(lls))

\* log_likelihoods.index(max(log_likelihoods)): the first position of the
\* maximum (positions count from 1 here)
IndexOfMax(lls) ==
    CHOOSE i \in 1 .. Len(lls) :
        /\ lls[i] = MaxOf(lls)
        /\ \A j \in 1 .. (i - 1) : lls[j] # MaxOf(lls)

\* run.py 115: accepted_order_dicts[log_likelihoods.index(max(log_likelihoods))]
order_with_higest_ll(accepted_order_dicts, lls) ==
    accepted_order_dicts[IndexOfMax(lls)]

----------------------------------------------------------------------------
(* Properties of the sampler and of run_ebm, checked under Spec *)

\* an ordering: every biomarker has a stage in 1..S and no stage is used twice
IsOrdering(d) ==
    /\ DOMAIN d = {biomarkers[i] : i \in 1 .. Len(biomarkers)}
    /\ \A b \in DOMAIN d : d[b] \in diseased_stages
    /\ \A b, c \in DOMAIN d : d[b] = d[c] => b = c

IsOrderArray(a) ==
    /\ DOMAIN a = 1 .. Len(biomarkers)
    /\ \A i \in DOMAIN a : a[i] \in diseased_stages
    /\ \A i, j \in DOMAIN a : a[i] = a[j] => i = j

\* C1: the loop body runs exactly `iterations` times: between iterations both
\* traces have as many entries as iterations were completed, the count never
\* passes `iterations`, and on return both traces have `iterations` entries.
C1_TraceLengths ==
    /\ iteration <= iterations
    /\ pc = "loop" =>
        /\ Len(all_accepted_orders) = iteration
        /\ Len(log_likelihoods) = iteration
    /\ pc \in {"evaluate", "decide"} =>
        /\ Len(all_accepted_orders) = iteration
        /\ Len(log_likelihoods) = iteration + 1
    /\ pc = "returned" =>
        /\ iteration = iterations
        /\ Len(all_accepted_orders) = iterations
        /\ Len(log_likelihoods) = iterations

\* a run of the largest length has returned, with a rejection in it
C1_Witness ==
    /\ pc = "returned"
    /\ iterations >= 3
    /\ Len(all_accepted_orders) = iterations
    /\ acceptance_count < iterations

\* C2: the initial order, every proposed order, the current order and every
\* entry of the accepted-orders trace give each biomarker one stage of 1..S,
\* no stage twice.
C2_OrderingsAreBijections ==
    /\ current_order # NoArray => IsOrderArray(arrays[current_order])
    /\ new_order # NoArray => IsOrderArray(arrays[new_order])
    /\ IsBound(current_order_dict) => IsOrdering(ValueOf(current_order_dict))
    /\ IsBound(new_order_dict) => IsOrdering(ValueOf(new_order_dict))
    /\ \A i \in 1 .. Len(all_accepted_orders) : IsOrdering(all_accepted_orders[i])

\* two shuffled proposals were made and the trace holds two different orders
C2_Witness ==
    /\ n_shuffle >= 1
    /\ Len(all_accepted_orders) >= 2
    /\ all_accepted_orders[1] # all_accepted_orders[2]
    /\ IsBound(new_order_dict)
    /\ IsOrdering(ValueOf(new_order_dict))

\* C3 (as stated): when new_ll > current_ll the proposal is accepted and no
\* random draw is consulted.
C3_NoDrawOnImprovement ==
    [][(pc = "decide" /\ new_ln_likelihood > current_ln_likelihood)
          => /\ current_order_dict' = new_order_dict
             /\ current_ln_likelihood' = new_ln_likelihood
             /\ rand_draws' = rand_draws]_vars

\* C3 (amended): when new_ll > current_ll the accept branch is taken whatever
\* the draw (the order and the log likelihood are replaced by the proposed
\* ones), and np.random.rand() is still called once.
C3_AcceptOnImprovement ==
    [][(pc = "decide" /\ new_ln_likelihood > current_ln_likelihood)
          => /\ current_order_dict' = new_order_dict
             /\ current_ln_likelihood' = new_ln_likelihood
             /\ rand_draws' = rand_draws + 1]_vars

\* a proposal better than a finite current log likelihood was accepted
C3_Witness ==
    /\ pc = "loop"
    /\ iteration >= 2
    /\ chain[iteration].accepted
    /\ log_likelihoods[iteration] # NegInf
    /\ chain[iteration].ln_likelihood > log_likelihoods[iteration]
    /\ rand_draws = iteration

\* C4: with an algorithm name outside the supported set no data is processed
\* and no iteration runs, and the run ends in the invalid-algorithm error.
C4_UnsupportedFailsFast ==
    algorithm \notin allowed_algorithms =>
        /\ ~data_loaded
        /\ pc \notin {"evaluate", "decide"}
        /\ log_likelihoods = <<>>
        /\ error \in {"none", "ValueError"}

\* C5: for every supported algorithm, run_ebm's call of the sampler binds its
\* arguments and the result unpacks into four values.
C5_CallCompletes ==
    (entry = "run_ebm" /\ algorithm \in allowed_algorithms) =>
        /\ error \notin {"TypeError", "ValueError_unpack"}
        /\ rpc = "unpacked" => Len(ReturnedValues) = 4

\* C6: accepted_orders[i] is the chain's order after iteration i's decision
\* (after a rejection: the entry before it), and log_likelihoods[i] is the
\* current log likelihood before that decision: -inf first, and then the log
\* likelihood of the state that accepted_orders[i-1] records, which is the
\* value of the likelihood function at that order and that state's parameters.
C6_TraceContents ==
    /\ Len(chain) = Len(all_accepted_orders)
    /\ \A i \in 1 .. Len(all_accepted_orders) :
        /\ all_accepted_orders[i] = chain[i].order
        /\ (i >= 2 /\ ~chain[i].accepted) =>
               all_accepted_orders[i] = all_accepted_orders[i - 1]
    /\ \A i \in 1 .. Len(log_likelihoods) :
        IF i = 1 THEN log_likelihoods[i] = NegInf
        ELSE /\ log_likelihoods[i] = chain[i - 1].ln_likelihood
             /\ \E k \in 1 .. Len(likelihood) :
                 /\ likelihood[k].args =
                        LikelihoodArgs(all_accepted_orders[i - 1], chain[i - 1].theta_phi)
                 /\ likelihood[k].value = log_likelihoods[i]

\* a rejected proposal that differs from the current order, then one more
\* iteration started
C6_Witness ==
    /\ Len(log_likelihoods) >= 3
    /\ Len(all_accepted_orders) >= 2
    /\ ~chain[2].accepted
    /\ IsBound(new_order_dict)
    /\ ValueOf(new_order_dict) # all_accepted_orders[2]
    /\ log_likelihoods[3] # NegInf

\* C7: under every supported algorithm but the baseline, the log likelihood
\* that the acceptance test uses was computed under parameters re-estimated in
\* this iteration, from posteriors computed under the current parameters and
\* the proposed order.
C7_ReestimatedEveryIteration ==
    (pc = "decide" /\ algorithm \in allowed_algorithms \ {"hard_kmeans"}) =>
        /\ IsBound(stage_likelihoods_posteriors)
        /\ IsBound(new_theta_phi)
        /\ ValueOf(stage_likelihoods_posteriors) =
               stage_likelihoods(ValueOf(new_order_dict), current_theta_phi)
        /\ ValueOf(new_theta_phi) =
               update_theta_phi_estimates(ValueOf(new_order_dict), current_theta_phi,
                                          ValueOf(stage_likelihoods_posteriors),
                                          algorithm)
        /\ likelihood_theta_phi = new_theta_phi

\* C8: under the baseline no parameters are re-estimated, every likelihood is
\* computed under the default estimate, and the current parameters are the
\* default estimate in every state.
C8_BaselineKeepsDefault ==
    algorithm = "hard_kmeans" =>
        /\ current_theta_phi = get_theta_phi_estimates
        /\ theta_phi_default = get_theta_phi_estimates
        /\ ~IsBound(new_theta_phi)
        /\ ~IsBound(stage_likelihoods_posteriors)
        /\ IsBound(likelihood_theta_phi) =>
               ValueOf(likelihood_theta_phi) = get_theta_phi_estimates
        /\ \A k \in 1 .. Len(likelihood) :
               likelihood[k].args.theta_phi = get_theta_phi_estimates

\* a baseline run with two accepted proposals
C8_Witness ==
    /\ algorithm = "hard_kmeans"
    /\ acceptance_count >= 2
    /\ pc = "returned"
    /\ current_theta_phi = get_theta_phi_estimates

\* C13: every algorithm name that tests/test.py passes to run_ebm passes
\* run_ebm's check of the name.
C13_TestNamesAccepted ==
    (entry = "run_ebm" /\ algorithm \in TestAlgorithms) => error # "ValueError"

\* the current state of the chain: the current order (the array and the
\* dict), the current parameters, the current log likelihood and the
\* acceptance counter
ChainState ==
    <<IF current_order = NoArray THEN <<>> ELSE arrays[current_order],
      current_order_dict, current_theta_phi, current_ln_likelihood,
      acceptance_count>>

\* the iterations accepted so far
AcceptedIterations == Cardinality({i \in 1 .. Len(chain) : chain[i].accepted})

\* a step of the accept branch: it ends the iteration with an accepted
\* entry, or it is the run's end in that branch
AcceptBranchStep ==
    /\ pc = "decide"
    /\ \/ pc' = "raised"
       \/ Len(chain') > Len(chain) /\ chain'[Len(chain')].accepted

\* a step inside the loop: a proposal, an evaluation, a decision or the
\* loop's end
LoopStep == pc \in {"loop", "evaluate", "decide"}

\* the entries of the trace of orders stay as they are
TraceKept ==
    /\ Len(all_accepted_orders') >= Len(all_accepted_orders)
    /\ \A i \in 1 .. Len(all_accepted_orders) :
           all_accepted_orders'[i] = all_accepted_orders[i]

\* C14: inside the loop only a step of the accept branch changes the current
\* state: neither the proposal (copy and shuffle), nor the evaluation, nor a
\* rejection changes the current order, parameters, log likelihood or
\* counter; no step changes an entry already in the trace; and the counter is
\* the number of accepted iterations.
C14_ChangesOnlyOnAcceptance ==
    [][LoopStep => /\ (~AcceptBranchStep => ChainState' = ChainState)
                   /\ TraceKept
                   /\ acceptance_count' = AcceptedIterations']_vars

\* the second iteration rejected a proposal that differs from the current
\* order
C14_Witness ==
    /\ pc = "loop"
    /\ iteration = 2
    /\ ~chain[2].accepted
    /\ acceptance_count = 1
    /\ arrays[new_order] # arrays[current_order]
    /\ all_accepted_orders[2] = all_accepted_orders[1]

\* C15: the order that run_ebm takes from the traces as the one with the
\* highest log likelihood is a state of the chain whose log likelihood is the
\* maximum of the log-likelihood trace.
C15_BestOrderHasMaxLikelihood ==
    (pc = "returned" /\ iterations > 0) =>
        /\ order_with_higest_ll(all_accepted_orders, log_likelihoods)
               = chain[IndexOfMax(log_likelihoods)].order
        /\ chain[IndexOfMax(log_likelihoods)].ln_likelihood = MaxOf(log_likelihoods)


----------------------------------------------------------------------------
(* Properties of the EM updater, checked under SpecEM *)

\* the entries of w are not negative and add up to 1
IsDistribution(w) ==
    /\ w.den > 0
    /\ \A i \in 1 .. Len(w.num) : w.num[i] >= 0
    /\ Sum(w) = w.den

\* new_w is raw_w divided by its sum
IsRescaled(new_w, raw_w) ==
    \A i \in 1 .. Len(raw_w.num) :
        new_w.num[i] * Sum(raw_w) = raw_w.num[i] * new_w.den

\* what the reuse policy asks of one side (theta or phi) of a call: the
\* previous KDE and weights when the mean absolute change is below the
\* threshold, and otherwise a KDE that did not exist before, built from the
\* measurements and the new weights, with the new weights
FollowsReusePolicy(new_w, old_kde, old_w, kde, w, old_ids) ==
    IF MeanAbsDiffBelow(new_w, old_w, last_call.threshold)
    THEN /\ kde = old_kde
         /\ w = old_w
    ELSE /\ kde.id \notin old_ids
         /\ kde.data = measurements
         /\ kde.weights = new_w
         /\ w = new_w

C10_WeightsNormalized ==
    last_call.called =>
        /\ \A i \in 1 .. Len(participants) :
            IF diseased[i]
            THEN last_call.raw_theta.num[i] * last_call.raw_phi.den
                     + last_call.raw_phi.num[i] * last_call.raw_theta.den
                 = last_call.raw_theta.den * last_call.raw_phi.den
            ELSE /\ last_call.raw_theta.num[i] = 0
                 /\ last_call.raw_phi.num[i] = last_call.raw_phi.den
        /\ Len(last_call.new_theta.num) = Len(participants)
        /\ Len(last_call.new_phi.num) = Len(participants)
        /\ IsDistribution(last_call.new_theta)
        /\ IsDistribution(last_call.new_phi)
        /\ IF Sum(last_call.raw_theta) = 0
           THEN last_call.new_theta = Uniform(Len(participants))
           ELSE IsRescaled(last_call.new_theta, last_call.raw_theta)
        /\ IF Sum(last_call.raw_phi) = 0
           THEN last_call.new_phi = Uniform(Len(participants))
           ELSE IsRescaled(last_call.new_phi, last_call.raw_phi)

\* a second call in which every participant is diseased and no posterior
\* mass lies below the biomarker's stage: the raw phi weights are all 0
C10_Witness ==
    /\ last_call.called
    /\ em_calls = 2
    /\ \A i \in 1 .. Len(participants) : diseased[i]
    /\ Sum(last_call.raw_phi) = 0
    /\ Sum(last_call.raw_theta) > 0
    /\ last_call.new_phi = Uniform(Len(participants))

\* the stored weight vector is the weight vector of the KDE it is stored
\* with
PairedWith(w, kde) == Len(w.num) = Len(kde.data) /\ w = kde.weights

\* C16: in every parameter set of the biomarker, the initial one and the one
\* after any calls of the updater, theta_weights is the weight vector of
\* theta_kde and phi_weights that of phi_kde.
C16_WeightsPairedWithKDE ==
    /\ PairedWith(theta_phi_current.theta_weights, theta_phi_current.theta_kde)
    /\ PairedWith(theta_phi_current.phi_weights, theta_phi_current.phi_kde)

\* the KDE is one of the two of the initial estimate
IsInitialKDE(kde) == kde.id \in {0, 1}

\* the pair is one the updater built, or it is the initial pair: a KDE with
\* uniform weights over its cluster and a uniform vector over all
\* participants
PairedOrInitial(w, kde) ==
    IF IsInitialKDE(kde)
    THEN /\ w = Uniform(Len(measurements))
         /\ kde.weights = Uniform(Len(kde.data))
    ELSE PairedWith(w, kde)

\* C16, amended: a weight vector stored with a KDE that the updater built is
\* that KDE's weight vector; while a KDE of the initial estimate is kept, the
\* stored vector is the uniform one over all participants and the KDE's own
\* weights are uniform over its cluster.
C16_PairedAfterRebuild ==
    /\ PairedOrInitial(theta_phi_current.theta_weights, theta_phi_current.theta_kde)
    /\ PairedOrInitial(theta_phi_current.phi_weights, theta_phi_current.phi_kde)

\* after two calls one side has a KDE the updater built and the other still
\* has the initial KDE, reused by the last call
C16_Witness ==
    /\ em_calls = 2
    /\ last_call.called
    /\ ~IsInitialKDE(theta_phi_current.theta_kde)
    /\ IsInitialKDE(theta_phi_current.phi_kde)
    /\ last_call.new_phi # theta_phi_current.phi_weights
    /\ Len(theta_phi_current.phi_kde.data) # Len(measurements)

----------------------------------------------------------------------------
(* Properties of the KDE constructor, checked under SpecKDE *)

\* every weight is at least 0
NonNegative(w) == w.den > 0 /\ \A i \in 1 .. Len(w.num) : w.num[i] >= 0

\* the weights add up to 1
SumsToOne(w) == Sum(w) = w.den

\* the bandwidth is above 0
IsPositive(bandwidth) ==
    bandwidth.num > 0 /\ bandwidth.den > 0 /\ bandwidth.n > 0

\* C11: every constructed KDE has weights that are at least 0 and add up to
\* 1, and a bandwidth above 0, with the weights omitted and with any weights
\* at least 0 supplied.
C11_WeightsSumToOne ==
    IsBound(new_kde) =>
        /\ NonNegative(ValueOf(new_kde).weights)
        /\ SumsToOne(ValueOf(new_kde).weights)
        /\ IsPositive(ValueOf(new_kde).bandwidth)

\* w is the supplied weights divided by a positive number
ProportionalTo(w, supplied) ==
    /\ Len(w.num) = Len(supplied.num)
    /\ \A i, j \in 1 .. Len(w.num) :
           w.num[i] * supplied.num[j] = w.num[j] * supplied.num[i]

\* C11, amended: every constructed KDE has weights at least 0 and a
\* bandwidth above 0; its weights are uniform when none were supplied, are
\* the supplied weights divided by their sum when that sum is positive, and
\* are the supplied weights as they are, all 0, when the sum is 0.
C11_NormalizedWhenPositiveSum ==
    IsBound(new_kde) =>
        /\ NonNegative(ValueOf(new_kde).weights)
        /\ IsPositive(ValueOf(new_kde).bandwidth)
        /\ IF kde_args.weights = <<>>
           THEN ValueOf(new_kde).weights = Uniform(Len(kde_args.data))
           ELSE IF Sum(kde_args.weights) > 0
           THEN /\ SumsToOne(ValueOf(new_kde).weights)
                /\ ProportionalTo(ValueOf(new_kde).weights, kde_args.weights)
           ELSE /\ ValueOf(new_kde).weights = kde_args.weights
                /\ Sum(ValueOf(new_kde).weights) = 0

\* a KDE constructed from weights that are all 0 and a bandwidth of 0
C11_Witness ==
    /\ IsBound(new_kde)
    /\ kde_args.weights # <<>>
    /\ Sum(kde_args.weights) = 0
    /\ Len(kde_args.data) > 1
    /\ kde_args.bandwidth = Float(0)
    /\ ValueOf(new_kde).bandwidth.den > 1

----------------------------------------------------------------------------
(* Properties of the likelihood, checked under SpecLikelihood *)

\* the weighted kernels of all the sample points of a KDE at x, with the
\* KDE's own weights and bandwidth
RECURSIVE DensityUpTo(_, _, _)
DensityUpTo(k, x, n) ==
    IF n = 0 THEN 0
    ELSE DensityUpTo(k, x, n - 1)
         + k.weights.num[n] * gaussian_kernel(x, k.data[n], k.bandwidth)

\* the logarithm of that density, or log(EPSILON) for a density below
\* EPSILON
LogpdfOverAllPoints(k, x) ==
    LogOrFloor(DensityUpTo(k, x, Len(k.data)), k.weights.den)

\* the KDE of a measurement: theta from the biomarker's stage on, phi before
SelectedKDE(e) ==
    IF e.k_j >= batch.S_n THEN kde_dict[e.biomarker].theta_kde
    ELSE kde_dict[e.biomarker].phi_kde

\* C12: the likelihood's term for every measurement is the logarithm of the
\* density of the selected KDE at the measurement, summed over all the sample
\* points of that KDE with its own weights and bandwidth, or log(EPSILON)
\* below EPSILON; the total is the sum of the terms.
C12_TermsAreLogpdfs ==
    IsBound(ln_likelihood) =>
        /\ Len(ValueOf(ln_likelihood)) = Len(batch.entries)
        /\ \A i \in 1 .. Len(batch.entries) :
               ValueOf(ln_likelihood)[i]
                   = LogpdfOverAllPoints(SelectedKDE(batch.entries[i]),
                                         batch.entries[i].measurement)

\* the KDE has no sample point equal to the padding value
NoZeroSample(k) == \A j \in 1 .. Len(k.data) : k.data[j] # 0

\* without a sample point of 0 and with the same bandwidth in the theta and
\* phi KDE of every biomarker in the batch, every term is the logarithm of
\* the density over all sample points
C12_TermsWithoutZeroSamples ==
    (/\ IsBound(ln_likelihood)
     /\ \A i \in 1 .. Len(batch.entries) :
            LET kdes == kde_dict[batch.entries[i].biomarker]
            IN  /\ NoZeroSample(kdes.theta_kde)
                /\ NoZeroSample(kdes.phi_kde)
                /\ kdes.theta_kde.bandwidth = kdes.phi_kde.bandwidth)
    => C12_TermsAreLogpdfs

============================================================================
